---- MODULE Spec2Model ----
(***************************************************************************)
(* Atlas CLI state ledger: the SQLite state store (clusters, resources,    *)
(* operation history), the lease table (state_locks), the audit service    *)
(* and the drift check of `atlas cluster status [--sync]`.                 *)
(*                                                                         *)
(* Every SQL statement is one atomic step on the shared database file.     *)
(* A Go function that issues several statements is a sequence of steps     *)
(* between which other processes may run.  Timestamps are the database     *)
(* clock CURRENT_TIMESTAMP, a whole number of seconds that may stay the    *)
(* same between two statements.                                            *)
(***************************************************************************)
EXTENDS Integers, Sequences, FiniteSets, TLC

\* ------------------------------------------------------------------------
\* Bounds of the model
\* ------------------------------------------------------------------------
MaxTime == 1
MaxOps == 3
MaxClusters == 2
MaxLimit == 2

Times == 0..MaxTime

\* A nullable column: NULL is the empty sequence, a value v is <<v>>.
Null == <<>>
Some(v) == <<v>>

\* ------------------------------------------------------------------------
\* State
\* ------------------------------------------------------------------------
VARIABLES
    now,            \* CURRENT_TIMESTAMP of the database
    state_locks,    \* table state_locks: a set of rows
    lockRes,        \* the last lease call: its arguments, the row it found, its result
    operation_history,  \* table operation_history: a set of rows
    nextOpId,       \* the next AUTOINCREMENT id of operation_history
    auditPc,        \* the audit caller: idle, or between the two statements of CompleteOperation
    auditRes,       \* the last audit or operation call: arguments, row found, error returned
    clusters,       \* table clusters: a set of rows
    nextClusterId,  \* the next AUTOINCREMENT id of clusters
    cluster_resources,  \* table cluster_resources: a set of rows
    storeRes,       \* the last cluster or resource call: arguments and error returned
    statusPc,       \* `atlas cluster status`: idle, or what the run holds between its calls
    statusRes,      \* how the last run of `atlas cluster status` ended
    readPc,         \* a reader: idle, or between the two statements of GetClusterState
    readRes,        \* what the last GetClusterState or ListClusters returned
    historyRes,     \* what the last GetOperationHistory returned
    user_version,   \* PRAGMA user_version of the database file
    migratePc,      \* a starting process inside runMigrations
    scriptPc,       \* the number of migrations of migrations.sql that were run by hand
    lastStep        \* the number of the migration step that completed last

lockVars == <<state_locks, lockRes>>
auditVars == <<operation_history, nextOpId, auditPc, auditRes>>
storeVars == <<clusters, nextClusterId, cluster_resources, storeRes>>
statusVars == <<statusPc, statusRes>>
readVars == <<readPc, readRes>>
migrateVars == <<user_version, migratePc, scriptPc, lastStep>>
moreVars == <<readPc, readRes, historyRes, user_version, migratePc, scriptPc, lastStep>>
vars == <<now, state_locks, lockRes, operation_history, nextOpId, auditPc, auditRes,
          clusters, nextClusterId, cluster_resources, storeRes, statusPc, statusRes,
          readPc, readRes, historyRes, user_version, migratePc, scriptPc, lastStep>>

\* ------------------------------------------------------------------------
\* Lease table (pkg/state/sqlite/queries.sql, pkg/state/sqlite/example_usage.go)
\* ------------------------------------------------------------------------
LockResources == {"r1", "r2"}
LockIds == {"k1", "k2"}

\* A caller presents the lock id it generated for itself and its own name.
LeaseTokens == {[lock_id |-> "k1", by |-> "h1"], [lock_id |-> "k2", by |-> "h2"]}

NoRow == [resource_name |-> "-"]

LockRow(r, id, by, at, exp) ==
    [resource_name |-> r, lock_id |-> id, acquired_by |-> by,
     acquired_at |-> at, expires_at |-> exp]

\* The rows of state_locks for one resource name.
LocksOf(locks, r) == {l \in locks : l.resource_name = r}

\* SELECT ... FROM state_locks WHERE resource_name = ?
GetLock(locks, r) ==
    IF LocksOf(locks, r) = {} THEN NoRow ELSE CHOOSE l \in LocksOf(locks, r) : TRUE

\* expires_at < CURRENT_TIMESTAMP
Expired(l, t) == l.expires_at < t

\* Mutant: the upsert without its WHERE clause (INSERT OR REPLACE).
AcquireLockStmt_Replace(locks, r, id, by, exp, t) ==
    [locks |-> (locks \ LocksOf(locks, r)) \cup {LockRow(r, id, by, t, exp)}, rows |-> 1]

\* Mutant: a plain INSERT that an existing row always blocks.
AcquireLockStmt_NoSteal(locks, r, id, by, exp, t) ==
    IF LocksOf(locks, r) = {}
    THEN [locks |-> locks \cup {LockRow(r, id, by, t, exp)}, rows |-> 1]
    ELSE [locks |-> locks, rows |-> 0]

\* Mutant: the upsert with WHERE expires_at <= CURRENT_TIMESTAMP.
AcquireLockStmt_StealAtExpiry(locks, r, id, by, exp, t) ==
    IF \A l \in LocksOf(locks, r) : l.expires_at =< t
    THEN [locks |-> (locks \ LocksOf(locks, r)) \cup {LockRow(r, id, by, t, exp)}, rows |-> 1]
    ELSE [locks |-> locks, rows |-> 0]

\* INSERT INTO state_locks ... ON CONFLICT(resource_name) DO UPDATE SET ...
\* WHERE expires_at < CURRENT_TIMESTAMP: insert when the resource has no row,
\* overwrite the existing row when it is expired, else change nothing.
\* The result is the new table and the number of rows affected.
AcquireLockStmt(locks, r, id, by, exp, t) ==
    LET old == LocksOf(locks, r)
        new == LockRow(r, id, by, t, exp)
    IN  IF old = {}
        THEN [locks |-> locks \cup {new}, rows |-> 1]
        ELSE IF \A l \in old : Expired(l, t)
             THEN [locks |-> (locks \ old) \cup {new}, rows |-> 1]
             ELSE [locks |-> locks, rows |-> 0]

\* Mutant: the DELETE without the lock_id condition.
ReleaseLockStmt_AnyId(locks, r, id) ==
    [locks |-> locks \ LocksOf(locks, r), rows |-> Cardinality(LocksOf(locks, r))]

\* DELETE FROM state_locks WHERE resource_name = ? AND lock_id = ?
ReleaseLockStmt(locks, r, id) ==
    LET hit == {l \in locks : l.resource_name = r /\ l.lock_id = id}
    IN  [locks |-> locks \ hit, rows |-> Cardinality(hit)]

\* Mutant: the UPDATE without the lock_id condition.
RefreshLockStmt_AnyId(locks, r, id, exp, t) ==
    [locks |-> (locks \ LocksOf(locks, r)) \cup
               {[l EXCEPT !.expires_at = exp, !.acquired_at = t] : l \in LocksOf(locks, r)},
     rows |-> Cardinality(LocksOf(locks, r))]

\* UPDATE state_locks SET expires_at = ?, acquired_at = CURRENT_TIMESTAMP
\* WHERE resource_name = ? AND lock_id = ?
RefreshLockStmt(locks, r, id, exp, t) ==
    LET hit == {l \in locks : l.resource_name = r /\ l.lock_id = id}
    IN  [locks |-> (locks \ hit) \cup
                   {[l EXCEPT !.expires_at = exp, !.acquired_at = t] : l \in hit},
         rows |-> Cardinality(hit)]

\* Mutant: the DELETE with expires_at <= CURRENT_TIMESTAMP.
CleanupExpiredLocksStmt_Inclusive(locks, t) ==
    LET hit == {l \in locks : l.expires_at =< t}
    IN  [locks |-> locks \ hit, rows |-> Cardinality(hit)]

\* DELETE FROM state_locks WHERE expires_at < CURRENT_TIMESTAMP
CleanupExpiredLocksStmt(locks, t) ==
    LET hit == {l \in locks : Expired(l, t)}
    IN  [locks |-> locks \ hit, rows |-> Cardinality(hit)]

\* What a lease call finds for its resource: no row, an expired row or a live one.
Held(locks, r, t) ==
    IF LocksOf(locks, r) = {} THEN "none"
    ELSE IF Expired(GetLock(locks, r), t) THEN "expired" ELSE "live"

\* The lock_id that the call recorded in `last` superseded on resource r by
\* overwriting an expired row, "-" if that call was no such steal.
Superseded(last, r) ==
    IF last.op = "Acquire" /\ last.resource = r /\ last.rows = 1 /\ last.held = "expired"
    THEN last.pre.lock_id ELSE "-"

\* The record of a lease call: its arguments, the row the resource had before
\* the call and whether that row was expired at the call, the number of rows
\* the statement affected, and the lock_id superseded by the call before it.
LockCall(op, r, id, exp, rows) ==
    [op |-> op, resource |-> r, lock_id |-> id, expires_at |-> exp,
     pre |-> GetLock(state_locks, r), held |-> Held(state_locks, r, now),
     rows |-> rows,
     after |-> IF op \in {"Refresh", "Release"} THEN Superseded(lockRes, r) ELSE "-"]

\* AcquireLock: rowsAffected = 0 is returned as the error "failed to acquire
\* lock for resource" (the Busy outcome), otherwise nil.
AcquireLock(r, id, by, exp) ==
    LET res == AcquireLockStmt(state_locks, r, id, by, exp, now)
    IN  /\ state_locks' = res.locks
        /\ lockRes' = LockCall("Acquire", r, id, exp, res.rows)
        /\ UNCHANGED <<now, auditVars, storeVars, statusVars, moreVars>>

ReleaseLock(r, id) ==
    LET res == ReleaseLockStmt(state_locks, r, id)
    IN  /\ state_locks' = res.locks
        /\ lockRes' = LockCall("Release", r, id, 0, res.rows)
        /\ UNCHANGED <<now, auditVars, storeVars, statusVars, moreVars>>

RefreshLock(r, id, exp) ==
    LET res == RefreshLockStmt(state_locks, r, id, exp, now)
    IN  /\ state_locks' = res.locks
        /\ lockRes' = LockCall("Refresh", r, id, exp, res.rows)
        /\ UNCHANGED <<now, auditVars, storeVars, statusVars, moreVars>>

\* CleanupExpiredLocks returns the number of rows deleted.
CleanupExpiredLocks ==
    LET res == CleanupExpiredLocksStmt(state_locks, now)
    IN  /\ state_locks' = res.locks
        /\ lockRes' = LockCall("Sweep", "-", "-", 0, res.rows)
        /\ UNCHANGED <<now, auditVars, storeVars, statusVars, moreVars>>

\* ------------------------------------------------------------------------
\* Operation history (pkg/state/sqlite.go) and the audit service (pkg/audit/audit.go)
\* ------------------------------------------------------------------------
ClusterNames == {"a", "b"}
OpTypes == {"create"}
OpStatuses == {"started", "running", "completed", "failed", "canceled"}
TerminalStatuses == {"completed", "failed", "canceled"}
ErrorMsgs == {"", "boom"}
MsPerSecond == 1000

NoOp == [id |-> 0]

OpsOf(ops, id) == {o \in ops : o.id = id}

\* SELECT ... FROM operation_history WHERE id = ?
GetOperation(ops, id) ==
    IF OpsOf(ops, id) = {} THEN NoOp ELSE CHOOSE o \in OpsOf(ops, id) : TRUE

\* INSERT INTO operation_history (cluster_name, operation_type, operation_status, ...):
\* started_at defaults to CURRENT_TIMESTAMP, completed_at, duration_ms and
\* error_message to NULL.
StartOperationStmt(ops, id, c, ty, st, t) ==
    ops \cup {[id |-> id, cluster_name |-> c, operation_type |-> ty,
               operation_status |-> st, started_at |-> t, completed_at |-> Null,
               duration_ms |-> Null, error_message |-> Null]}

\* UPDATE operation_history SET operation_status = ?, error_message = ? WHERE id = ?
UpdateOperationStmt(ops, id, st, msg) ==
    (ops \ OpsOf(ops, id)) \cup
    {[o EXCEPT !.operation_status = st, !.error_message = Some(msg)] : o \in OpsOf(ops, id)}

\* UPDATE operation_history SET operation_status = ?, completed_at = CURRENT_TIMESTAMP,
\* duration_ms = (julianday('now') - julianday(started_at)) * 24 * 60 * 60 * 1000 WHERE id = ?
CompleteOperationStmt(ops, id, st, t) ==
    (ops \ OpsOf(ops, id)) \cup
    {[o EXCEPT !.operation_status = st, !.completed_at = Some(t),
               !.duration_ms = Some((t - o.started_at) * MsPerSecond)] : o \in OpsOf(ops, id)}

\* The record of an audit or operation call: the operation, the id it was
\* about and the error it returned ("nil" for none, "-" while the call runs).
AuditCall(op, id, err) == [op |-> op, id |-> id, err |-> err]

AuditIdle == [state |-> "idle"]

\* auditService.StartOperation: one INSERT with status "started"; the new id
\* is handed back in the OperationContext.
AuditStartOperation(c, ty) ==
    /\ nextOpId <= MaxOps
    /\ operation_history' = StartOperationStmt(operation_history, nextOpId, c, ty, "started", now)
    /\ nextOpId' = nextOpId + 1
    /\ auditRes' = AuditCall("Begin", nextOpId, "nil")
    /\ UNCHANGED <<now, auditPc>>

\* auditService.CompleteOperation, first statement.  With an error message it
\* is UpdateOperation, and CompleteOperation follows as a second statement;
\* without one it is CompleteOperation alone and the call returns its error.
AuditCompleteOperation(id, st, msg) ==
    /\ auditPc = AuditIdle
    /\ OpsOf(operation_history, id) # {}
    /\ IF msg # ""
       THEN /\ operation_history' = UpdateOperationStmt(operation_history, id, st, msg)
            /\ auditPc' = [state |-> "updated", id |-> id, status |-> st]
            /\ auditRes' = AuditCall("Completing", id, "-")
       ELSE /\ operation_history' = CompleteOperationStmt(operation_history, id, st, now)
            /\ auditRes' = AuditCall("Complete", id, "nil")
            /\ UNCHANGED auditPc
    /\ UNCHANGED <<now, nextOpId>>

\* auditService.CompleteOperation, second statement after UpdateOperation.
AuditCompleteOperationFinish ==
    /\ auditPc # AuditIdle
    /\ operation_history' =
          CompleteOperationStmt(operation_history, auditPc.id, auditPc.status, now)
    /\ auditRes' = AuditCall("Complete", auditPc.id, "nil")
    /\ auditPc' = AuditIdle
    /\ UNCHANGED <<now, nextOpId>>

\* SQLiteStateManager.UpdateOperation called by another process.
UpdateOperation(id, st, msg) ==
    /\ operation_history' = UpdateOperationStmt(operation_history, id, st, msg)
    /\ auditRes' = AuditCall("UpdateOperation", id, "nil")
    /\ UNCHANGED <<now, nextOpId, auditPc>>

\* SQLiteStateManager.CompleteOperation called by another process.
CompleteOperation(id, st) ==
    /\ operation_history' = CompleteOperationStmt(operation_history, id, st, now)
    /\ auditRes' = AuditCall("CompleteOperation", id, "nil")
    /\ UNCHANGED <<now, nextOpId, auditPc>>

\* The rows of operation_history of one cluster (WHERE cluster_name = ?).
OpsNamed(ops, c) == {o \in ops : o.cluster_name = c}

IsSortedByStartedAtDesc(s) ==
    \A i, j \in 1..Len(s) : i < j => s[i].started_at >= s[j].started_at

\* ORDER BY started_at DESC over a set of rows: every arrangement of the rows
\* in which started_at never increases.  The statement gives no second sort
\* key, so rows started in the same second come in any order.
OrderByStartedAtDesc(rows) ==
    {s \in [1..Cardinality(rows) -> rows] :
        /\ \A i, j \in 1..Cardinality(rows) : i # j => s[i] # s[j]
        /\ IsSortedByStartedAtDesc(s)}

\* The limit values a caller passes (the --limit flag is a count of records).
Limits == 0..MaxLimit

FirstRows(s, limit) == SubSeq(s, 1, IF limit < Len(s) THEN limit ELSE Len(s))

GetOperationHistoryStmt_Ascending(ops, c, limit) ==
    {FirstRows(s, limit) : s \in {t \in [1..Cardinality(OpsNamed(ops, c)) -> OpsNamed(ops, c)] :
        /\ \A i, j \in 1..Len(t) : i # j => t[i] # t[j]
        /\ \A i, j \in 1..Len(t) : i < j => t[i].started_at =< t[j].started_at}}

GetOperationHistoryStmt_Finished(ops, c, limit) ==
    {FirstRows(s, limit) :
        s \in OrderByStartedAtDesc({o \in OpsNamed(ops, c) : o.completed_at # Null})}

\* SELECT ... FROM operation_history WHERE cluster_name = ?
\* ORDER BY started_at DESC LIMIT ?: the results the statement can give.
GetOperationHistoryStmt(ops, c, limit) ==
    {FirstRows(s, limit) : s \in OrderByStartedAtDesc(OpsNamed(ops, c))}

\* The rows of operation_history left by a DELETE of the cluster row, were
\* the ON DELETE CASCADE of its foreign key carried out.
HistoryAfterDelete_Cascade(ops, name) == ops \ OpsNamed(ops, name)

\* The rows of operation_history after DELETE FROM clusters WHERE name = ?.
\* The table declares FOREIGN KEY (cluster_name) REFERENCES clusters(name)
\* ON DELETE CASCADE, but the connection is opened without PRAGMA
\* foreign_keys, so SQLite does not act on the clause.
HistoryAfterDelete(ops, name) == ops

HistoryCall(c, limit, rows) == [cluster |-> c, limit |-> limit, rows |-> rows]

\* SQLiteStateManager.GetOperationHistory, as clusterHistoryCmd calls it
\* with the cluster name and the --limit flag.
GetOperationHistory(c, limit) ==
    /\ \E rows \in GetOperationHistoryStmt(operation_history, c, limit) :
          historyRes' = HistoryCall(c, limit, rows)
    /\ UNCHANGED <<now, auditVars>>

\* ------------------------------------------------------------------------
\* Cluster and resource tables (pkg/state/sqlite.go)
\* ------------------------------------------------------------------------
\* What a caller supplies for a cluster besides its name and ID.
ClusterInputs ==
    { [provider |-> "local", region |-> "local", status |-> "running",
       node_count |-> 2, version |-> "v1", config |-> "{}",
       metadata |-> "{}", created_by |-> "u1"],
      [provider |-> "aws", region |-> "us-west-2", status |-> "stopped",
       node_count |-> 3, version |-> "v2", config |-> "{\"k\":1}",
       metadata |-> "{\"m\":\"1\"}", created_by |-> "u2"] }

\* The errors the driver hands back; the state manager returns them as they are.
ErrNil == "nil"
ErrConstraint == "UNIQUE constraint failed: clusters.name"
ErrIO == "disk I/O error"
ErrNoRows == "sql: no rows in result set"

\* GetClusterState found no row: it returns (nil, nil).
Absent == [id |-> 0]

\* The *ClusterState a caller passes to SaveClusterState.
ClusterState(id, name, in) ==
    [id |-> id, name |-> name, provider |-> in.provider, region |-> in.region,
     status |-> in.status, node_count |-> in.node_count, version |-> in.version,
     config |-> in.config, metadata |-> in.metadata, created_by |-> in.created_by]

ClustersNamed(cs, name) == {c \in cs : c.name = name}

\* SELECT ... FROM clusters WHERE name = ?
GetClusterState(cs, name) ==
    IF ClustersNamed(cs, name) = {} THEN Absent
    ELSE CHOOSE c \in ClustersNamed(cs, name) : TRUE

\* INSERT OR REPLACE INTO clusters, the statement of the example manager:
\* a row of the same name is deleted first.
InsertClusterStmt_Replace(cs, nextId, st, t) ==
    [clusters |-> (cs \ ClustersNamed(cs, st.name)) \cup
                  {[st EXCEPT !.id = nextId] @@ [created_at |-> t, updated_at |-> t]},
     nextId |-> nextId + 1, id |-> nextId, err |-> ErrNil]

\* INSERT INTO clusters (name, ...): name is UNIQUE, id is AUTOINCREMENT,
\* created_at and updated_at default to CURRENT_TIMESTAMP.
InsertClusterStmt(cs, nextId, st, t) ==
    IF ClustersNamed(cs, st.name) # {}
    THEN [clusters |-> cs, nextId |-> nextId, id |-> 0, err |-> ErrConstraint]
    ELSE [clusters |-> cs \cup
                       {[st EXCEPT !.id = nextId] @@ [created_at |-> t, updated_at |-> t]},
          nextId |-> nextId + 1, id |-> nextId, err |-> ErrNil]

\* UPDATE clusters SET provider, region, status, node_count, version, config,
\* metadata, updated_at = CURRENT_TIMESTAMP WHERE id = ?: the name is not
\* written and the number of rows affected is not looked at.
UpdateClusterStmt(cs, st, t) ==
    {IF c.id = st.id
     THEN [c EXCEPT !.provider = st.provider, !.region = st.region,
                    !.status = st.status, !.node_count = st.node_count,
                    !.version = st.version, !.config = st.config,
                    !.metadata = st.metadata, !.updated_at = t]
     ELSE c : c \in cs}

\* SaveClusterState: INSERT when state.ID is 0, UPDATE otherwise.
SaveClusterStateStmt(cs, nextId, st, t) ==
    IF st.id = 0 THEN InsertClusterStmt(cs, nextId, st, t)
    ELSE [clusters |-> UpdateClusterStmt(cs, st, t), nextId |-> nextId,
          id |-> st.id, err |-> ErrNil]

\* The delete returns nil whether or not a row was deleted.
DeleteClusterStateStmt_NoCheck(cs, name) ==
    [clusters |-> cs \ ClustersNamed(cs, name), err |-> ErrNil]

\* DELETE FROM clusters WHERE name = ?: no other table is touched, foreign
\* keys are not switched on for the connection and cluster_resources.cluster_id
\* holds the cluster name, not clusters.id.
DeleteClusterStateStmt(cs, name) ==
    [clusters |-> cs \ ClustersNamed(cs, name),
     err |-> IF ClustersNamed(cs, name) = {} THEN ErrNoRows ELSE ErrNil]

ResourceIds == {"x1", "x2"}

\* The *Resource a caller passes to SaveResource.
Resource(id, clusterName) ==
    [id |-> id, cluster_id |-> clusterName, resource_type |-> "addon",
     resource_name |-> "ingress", namespace |-> "", status |-> "enabled"]

SameResourceKey(r, q) ==
    /\ r.cluster_id = q.cluster_id
    /\ r.resource_type = q.resource_type
    /\ r.resource_name = q.resource_name
    /\ r.namespace = q.namespace

\* INSERT OR REPLACE INTO cluster_resources: rows with the same id or the same
\* (cluster_id, resource_type, resource_name, namespace) are deleted, then the
\* row is inserted with created_at at its default.
SaveResourceStmt(rs, r, t) ==
    {q \in rs : q.id # r.id /\ ~SameResourceKey(q, r)} \cup
    {r @@ [created_at |-> t, updated_at |-> t]}

\* DELETE FROM cluster_resources WHERE cluster_id = ? AND id = ?
DeleteResourceStmt(rs, clusterName, id) ==
    LET hit == {q \in rs : q.cluster_id = clusterName /\ q.id = id}
    IN  [resources |-> rs \ hit,
         err |-> IF hit = {} THEN ErrNoRows ELSE ErrNil]

ResourcesOf(rs, clusterName) == {q \in rs : q.cluster_id = clusterName}

IsSortedByCreatedAt(s) ==
    \A i \in 1..Len(s), j \in 1..Len(s) : i < j => s[i].created_at <= s[j].created_at

\* SELECT ... FROM cluster_resources WHERE cluster_id = ? ORDER BY created_at ASC
ListResources(rs, clusterName) ==
    LET S == ResourcesOf(rs, clusterName)
    IN  CHOOSE s \in [1..Cardinality(S) -> S] :
            /\ \A q \in S : \E i \in 1..Cardinality(S) : s[i] = q
            /\ IsSortedByCreatedAt(s)

\* The record of a cluster or resource call.
StoreCall(op, name, id, err) ==
    [op |-> op, name |-> name, id |-> id, err |-> err]

\* SQLiteStateManager.SaveClusterState; io: the statement fails in the driver.
SaveClusterState(id, name, in, io) ==
    LET res == SaveClusterStateStmt(clusters, nextClusterId, ClusterState(id, name, in), now)
    IN  /\ id = 0 /\ ~io /\ res.err = ErrNil => nextClusterId <= MaxClusters
        /\ IF io
           THEN /\ storeRes' = StoreCall("SaveCluster", name, id, ErrIO)
                /\ UNCHANGED <<clusters, nextClusterId>>
           ELSE /\ clusters' = res.clusters
                /\ nextClusterId' = res.nextId
                /\ storeRes' = StoreCall("SaveCluster", name, id, res.err)
        /\ UNCHANGED <<now, cluster_resources>>

\* SQLiteStateManager.DeleteClusterState.
DeleteClusterState(name) ==
    LET res == DeleteClusterStateStmt(clusters, name)
    IN  /\ clusters' = res.clusters
        /\ storeRes' = StoreCall("DeleteCluster", name, 0, res.err)
        /\ UNCHANGED <<now, nextClusterId, cluster_resources>>

\* SQLiteStateManager.DeleteClusterState with what its DELETE does to
\* operation_history.
DeleteClusterStateAndHistory(name) ==
    /\ DeleteClusterState(name)
    /\ operation_history' = HistoryAfterDelete(operation_history, name)
    /\ UNCHANGED <<nextOpId, auditPc, auditRes>>

\* SQLiteStateManager.SaveResource.
SaveResource(id, clusterName) ==
    /\ cluster_resources' = SaveResourceStmt(cluster_resources, Resource(id, clusterName), now)
    /\ storeRes' = StoreCall("SaveResource", clusterName, 0, ErrNil)
    /\ UNCHANGED <<now, clusters, nextClusterId>>

\* SQLiteStateManager.DeleteResource.
DeleteResource(clusterName, id) ==
    LET res == DeleteResourceStmt(cluster_resources, clusterName, id)
    IN  /\ cluster_resources' = res.resources
        /\ storeRes' = StoreCall("DeleteResource", clusterName, 0, res.err)
        /\ UNCHANGED <<now, clusters, nextClusterId>>

\* ------------------------------------------------------------------------
\* Reads of clusters (pkg/state/sqlite.go)
\* ------------------------------------------------------------------------
IsSortedByCreatedAtDesc(s) ==
    \A i \in 1..Len(s), j \in 1..Len(s) : i < j => s[i].created_at >= s[j].created_at

\* SELECT ... FROM clusters ORDER BY created_at DESC
ListClustersRows(cs) ==
    CHOOSE s \in [1..Cardinality(cs) -> cs] :
        /\ \A c \in cs : \E i \in 1..Cardinality(cs) : s[i] = c
        /\ IsSortedByCreatedAtDesc(s)

\* The config and metadata texts that are JSON objects, and a text cut off
\* after its first character, as a damaged file or another program leaves it.
ValidJSON == {"{}", "{\"k\":1}", "{\"m\":\"1\"}"}
TruncatedJSON == "{"
ErrJSON == "unexpected end of JSON input"

\* json.Unmarshal into a nil map: the decoded object, or a syntax error that
\* leaves the map nil.
Unmarshal(text) ==
    IF text \in ValidJSON THEN [err |-> ErrNil, value |-> text]
    ELSE [err |-> ErrJSON, value |-> "nil"]

\* GetClusterState: a config or metadata text that does not decode is
\* replaced by an empty map.
DecodeOrEmpty(row) ==
    [row EXCEPT !.config = IF Unmarshal(@).err = ErrNil THEN Unmarshal(@).value ELSE "{}",
                !.metadata = IF Unmarshal(@).err = ErrNil THEN Unmarshal(@).value ELSE "{}"]

\* ListClusters: the error of json.Unmarshal is not looked at.
DecodeIgnoringError(row) ==
    [row EXCEPT !.config = Unmarshal(@).value, !.metadata = Unmarshal(@).value]

\* The config column of one row is overwritten from outside the program
\* with a text that is no JSON; config is TEXT and takes any text.
CorruptStoredValue(name) ==
    /\ \E c \in ClustersNamed(clusters, name) : c.config \in ValidJSON
    /\ clusters' = (clusters \ ClustersNamed(clusters, name)) \cup
                   {[c EXCEPT !.config = TruncatedJSON] : c \in ClustersNamed(clusters, name)}
    /\ UNCHANGED <<now, nextClusterId, cluster_resources, storeRes>>

\* A *ClusterState that a read returns: the row and its Resources.
Loaded(row, resources) == [cluster |-> row, resources |-> resources]

\* GetClusterState reports a missing row as an error.
GetClusterStateMiss_NoRows == [records |-> <<>>, err |-> ErrNoRows]

\* GetClusterState when the row query returns sql.ErrNoRows: (nil, nil).
GetClusterStateMiss == [records |-> <<>>, err |-> ErrNil]

ReadIdle == [state |-> "idle"]

\* The record of a read: the call, the error and the records returned.
ReadCall(op, name, err, records) ==
    [op |-> op, name |-> name, err |-> err, records |-> records]

\* GetClusterState, first statement: the row of the name; io: the query fails.
GetClusterStateRow(name, io) ==
    LET row == GetClusterState(clusters, name)
    IN  /\ readPc = ReadIdle
        /\ IF io
           THEN /\ readRes' = ReadCall("GetCluster", name, ErrIO, <<>>)
                /\ UNCHANGED readPc
           ELSE IF row.id = 0
           THEN /\ readRes' = ReadCall("GetCluster", name, GetClusterStateMiss.err,
                                       GetClusterStateMiss.records)
                /\ UNCHANGED readPc
           ELSE /\ readPc' = [state |-> "row", name |-> name, cluster |-> row]
                /\ UNCHANGED readRes
        /\ UNCHANGED <<now, storeVars>>

\* GetClusterState, second statement: ListResources(name), and the return.
GetClusterStateResources(io) ==
    /\ readPc.state = "row"
    /\ readRes' =
          IF io THEN ReadCall("GetCluster", readPc.name, ErrIO, <<>>)
          ELSE ReadCall("GetCluster", readPc.name, ErrNil,
                        <<Loaded(DecodeOrEmpty(readPc.cluster),
                                 ListResources(cluster_resources, readPc.name))>>)
    /\ readPc' = ReadIdle
    /\ UNCHANGED <<now, storeVars>>

\* SQLiteStateManager.ListClusters: the rows, Resources left unset.
ListClusters ==
    LET rows == ListClustersRows(clusters)
    IN  /\ readPc = ReadIdle
        /\ readRes' = ReadCall("ListClusters", "-", ErrNil,
                               [i \in 1..Len(rows) |->
                                   Loaded(DecodeIgnoringError(rows[i]), <<>>)])
        /\ UNCHANGED <<now, storeVars, readPc>>

\* ------------------------------------------------------------------------
\* Drift check of `atlas cluster status [--sync]` (cmd/cluster.go)
\* ------------------------------------------------------------------------
\* What the provider's GetCluster returns: an error (the cluster does not
\* exist), or the observed status, node count and version; the version is
\* empty when the node list could not be read.
NotFound == [found |-> FALSE]

ProviderReports ==
    { NotFound,
      [found |-> TRUE, status |-> "running", node_count |-> 2, version |-> "v1"],
      [found |-> TRUE, status |-> "error", node_count |-> 3, version |-> ""] }

\* What the minikube commands of LocalProvider.GetCluster give: the marker
\* words that the output of `minikube status` contains, the error of that
\* command, and the node count and version found by `profile list` and
\* `kubectl version` (1 and "" when they find nothing).
MinikubeRuns ==
    [out : { {}, {"Running"}, {"Stopped"}, {"does not exist"} },
     err : {"nil", "exit status 7", "executable file not found"},
     node_count : {1, 2},
     version : {"v1"}]

\* Mutant: every error of `minikube status` is returned as "does not exist".
LocalGetCluster_AnyError(m) ==
    IF m.err # "nil" THEN NotFound
    ELSE [found |-> TRUE,
          status |-> IF "Running" \in m.out THEN "running"
                     ELSE IF "Stopped" \in m.out THEN "stopped" ELSE "error",
          node_count |-> m.node_count, version |-> m.version]

\* LocalProvider.GetCluster: the status is running or stopped by the words of
\* the output; failing those, an error of the command with "exit status 7" or
\* an output with "does not exist" is returned as the error "cluster does
\* not exist"; every other case is a cluster of status error.
LocalGetCluster(m) ==
    IF "Running" \in m.out
    THEN [found |-> TRUE, status |-> "running",
          node_count |-> m.node_count, version |-> m.version]
    ELSE IF "Stopped" \in m.out
    THEN [found |-> TRUE, status |-> "stopped",
          node_count |-> m.node_count, version |-> m.version]
    ELSE IF m.err # "nil" /\ (m.err = "exit status 7" \/ "does not exist" \in m.out)
    THEN NotFound
    ELSE [found |-> TRUE, status |-> "error",
          node_count |-> m.node_count, version |-> m.version]

\* The fields on which the stored record and the provider's report differ;
\* an empty observed version is no difference.
DriftFields(stored, actual) ==
    {f \in {"status", "node_count"} : stored[f] # actual[f]} \cup
    {f \in {"version"} : stored.version # actual.version /\ actual.version # ""}

\* The run writes without looking at the --sync flag.
NeedsSync_NoFlag(stored, actual, syncFlag) ==
    /\ stored.id # 0
    /\ actual.found
    /\ DriftFields(stored, actual) # {}

\* The run reaches its SaveClusterState call.
NeedsSync(stored, actual, syncFlag) ==
    /\ stored.id # 0
    /\ actual.found
    /\ DriftFields(stored, actual) # {}
    /\ syncFlag

\* The record the run hands to SaveClusterState: the record it read, with
\* the observed status and node count, and the observed version if not empty.
Synced(stored, actual) ==
    [stored EXCEPT !.status = actual.status,
                   !.node_count = actual.node_count,
                   !.version = IF actual.version # "" THEN actual.version ELSE @]

\* How a run that does not write ends.
Outcome(stored, actual) ==
    IF stored.id = 0 /\ ~actual.found THEN "not found"
    ELSE IF stored.id = 0 THEN "untracked"
    ELSE IF ~actual.found THEN "stale"
    ELSE IF DriftFields(stored, actual) # {} THEN "drift reported"
    ELSE "in sync"

\* The run lists a version difference also when the observed version is empty.
DriftMessages_AnyVersion(stored, actual) ==
    (IF stored.status # actual.status
     THEN << <<"Status", stored.status, actual.status>> >> ELSE <<>>) \o
    (IF stored.node_count # actual.node_count
     THEN << <<"Nodes", ToString(stored.node_count), ToString(actual.node_count)>> >>
     ELSE <<>>) \o
    (IF stored.version # actual.version
     THEN << <<"Version", stored.version, actual.version>> >> ELSE <<>>)

\* driftMessages: one line per differing field, in the order status, node
\* count, version, each naming the field with the stored and the observed
\* value as printed by %s and %d.
DriftMessages(stored, actual) ==
    (IF stored.status # actual.status
     THEN << <<"Status", stored.status, actual.status>> >> ELSE <<>>) \o
    (IF stored.node_count # actual.node_count
     THEN << <<"Nodes", ToString(stored.node_count), ToString(actual.node_count)>> >>
     ELSE <<>>) \o
    (IF stored.version # actual.version /\ actual.version # ""
     THEN << <<"Version", stored.version, actual.version>> >> ELSE <<>>)

OutputModes == {"text", "json"}

\* The document a run prints last: in json mode the marshalled object, in
\* text mode the lines that start with "Cluster: <name>".
Document(outcome, output) ==
    IF outcome \in {"not found", "read failed", "sync failed", "none"} THEN "-"
    ELSE IF output = "json"
         THEN IF outcome = "untracked" THEN "json of providers.Cluster"
              ELSE "json of state.ClusterState"
    ELSE IF outcome = "untracked" THEN "Cluster: (not tracked in DB)"
    ELSE IF outcome = "stale"
         THEN "Cluster: (exists in database but not found in provider)"
    ELSE "Cluster: Provider: Region: Status: Nodes: Version: Created: Updated:"

\* What the caller of a run gets: the error returned and what was printed,
\* that is the lines before the document, the drift lines and the document.
Report(outcome, output, messages) ==
    [err |-> IF outcome = "not found" THEN "not found in state database or provider"
             ELSE IF outcome = "read failed" THEN "failed to get cluster state"
             ELSE IF outcome = "sync failed" THEN "failed to sync database state"
             ELSE "nil",
     banner |-> IF outcome = "drift reported" THEN "Drift detected; Use --sync flag"
                ELSE IF outcome = "synchronized"
                     THEN "Synchronizing; Database synchronized successfully"
                ELSE IF outcome = "sync failed" THEN "Synchronizing"
                ELSE "",
     messages |-> IF outcome = "drift reported" THEN messages ELSE <<>>,
     doc |-> Document(outcome, output)]

StatusIdle == [state |-> "idle"]

StatusRun(outcome, name, output, messages) ==
    [outcome |-> outcome, name |-> name, output |-> output,
     report |-> Report(outcome, output, messages)]

\* The run starts: GetClusterState(clusterName); io: the read fails and the
\* run returns "failed to get cluster state".
StatusRead(name, syncFlag, output, io) ==
    /\ statusPc = StatusIdle
    /\ IF io
       THEN /\ statusRes' = StatusRun("read failed", name, output, <<>>)
            /\ UNCHANGED statusPc
       ELSE /\ statusPc' = [state |-> "read", name |-> name, syncFlag |-> syncFlag,
                            output |-> output,
                            stored |-> GetClusterState(clusters, name),
                            actual |-> NotFound, messages |-> <<>>]
            /\ UNCHANGED statusRes
    /\ UNCHANGED <<now, storeVars>>

\* The provider is asked and the run decides: it ends here unless it has to
\* write.
StatusCheck(actual) ==
    /\ statusPc.state = "read"
    /\ IF NeedsSync(statusPc.stored, actual, statusPc.syncFlag)
       THEN /\ statusPc' = [statusPc EXCEPT !.state = "write", !.actual = actual,
                                 !.messages = DriftMessages(statusPc.stored, actual)]
            /\ UNCHANGED statusRes
       ELSE /\ statusPc' = StatusIdle
            /\ statusRes' =
                  StatusRun(Outcome(statusPc.stored, actual), statusPc.name,
                            statusPc.output,
                            IF statusPc.stored.id # 0 /\ actual.found
                            THEN DriftMessages(statusPc.stored, actual) ELSE <<>>)
    /\ UNCHANGED <<now, storeVars>>

\* The run's SaveClusterState(clusterState) and its return.
StatusSync(io) ==
    LET st == Synced(statusPc.stored, statusPc.actual)
        res == SaveClusterStateStmt(clusters, nextClusterId, st, now)
    IN  /\ statusPc.state = "write"
        /\ IF io
           THEN /\ storeRes' = StoreCall("SaveCluster", st.name, st.id, ErrIO)
                /\ statusRes' = StatusRun("sync failed", st.name, statusPc.output, <<>>)
                /\ UNCHANGED <<clusters, nextClusterId>>
           ELSE /\ clusters' = res.clusters
                /\ nextClusterId' = res.nextId
                /\ storeRes' = StoreCall("SaveCluster", st.name, st.id, res.err)
                /\ statusRes' = StatusRun("synchronized", st.name, statusPc.output, <<>>)
        /\ statusPc' = StatusIdle
        /\ UNCHANGED <<now, cluster_resources>>

\* ------------------------------------------------------------------------
\* Schema migrations (pkg/state/sqlite/example_usage.go, migrations.sql)
\* ------------------------------------------------------------------------
\* The number of the last migration of migrations.sql (005_add_indexes).
LastScriptMigration == 5

MigrateIdle == [state |-> "idle"]

\* Where a starting process is inside runMigrations: the version it read,
\* the migration functions that returned nil so far, and the error of the
\* call once it returned.
MigrateAt(state, version, ran, err) ==
    [state |-> state, version |-> version, ran |-> ran, err |-> err]

\* runMigrations, first statement: PRAGMA user_version is read into
\* `version`; an error of the query is returned.
RunMigrationsReadVersion(io) ==
    /\ migratePc.state \in {"idle", "returned"}
    /\ migratePc' = IF io THEN MigrateAt("returned", 0, <<>>, ErrIO)
                    ELSE MigrateAt("read", user_version, <<>>, "-")
    /\ UNCHANGED <<user_version, scriptPc, lastStep>>

\* runMigrations: if version < 1, runMigration001 is called.  It executes
\* nothing and returns nil; user_version is not written.
RunMigration001 ==
    /\ migratePc.state = "read"
    /\ IF migratePc.version < 1
       THEN /\ migratePc' = [migratePc EXCEPT !.state = "after001",
                                              !.ran = Append(@, 1)]
            /\ lastStep' = 1
       ELSE /\ migratePc' = [migratePc EXCEPT !.state = "after001"]
            /\ UNCHANGED lastStep
    /\ UNCHANGED <<user_version, scriptPc>>

\* runMigrations: if version < 2, runMigration002 is called.  It executes
\* nothing and returns nil; then runMigrations returns nil.
RunMigration002 ==
    /\ migratePc.state = "after001"
    /\ IF migratePc.version < 2
       THEN /\ migratePc' = [migratePc EXCEPT !.state = "returned", !.err = ErrNil,
                                              !.ran = Append(@, 2)]
            /\ lastStep' = 2
       ELSE /\ migratePc' = [migratePc EXCEPT !.state = "returned", !.err = ErrNil]
            /\ UNCHANGED lastStep
    /\ UNCHANGED <<user_version, scriptPc>>

\* One migration of migrations.sql run in the sqlite3 shell: a transaction
\* that creates its tables with IF NOT EXISTS and sets PRAGMA user_version to
\* its number, committed as a whole.  No code of the program runs the script.
ScriptMigration(n) ==
    /\ scriptPc = n - 1
    /\ scriptPc' = n
    /\ user_version' = n
    /\ lastStep' = n
    /\ UNCHANGED migratePc

\* The database clock moves on by one second.
Tick ==
    /\ now < MaxTime
    /\ now' = now + 1
    /\ UNCHANGED <<lockVars, auditVars, storeVars, statusVars, moreVars>>

\* ------------------------------------------------------------------------
\* Specifications
\* ------------------------------------------------------------------------
Init ==
    /\ now = 0
    /\ state_locks = {}
    /\ lockRes = [op |-> "none", resource |-> "-", lock_id |-> "-",
                  expires_at |-> 0, pre |-> NoRow, held |-> "none", rows |-> 0,
                  after |-> "-"]
    /\ operation_history = {}
    /\ nextOpId = 1
    /\ auditPc = AuditIdle
    /\ auditRes = AuditCall("none", 0, "nil")
    /\ clusters = {}
    /\ nextClusterId = 1
    /\ cluster_resources = {}
    /\ storeRes = StoreCall("none", "-", 0, ErrNil)
    /\ statusPc = StatusIdle
    /\ statusRes = StatusRun("none", "-", "text", <<>>)
    /\ readPc = ReadIdle
    /\ readRes = ReadCall("none", "-", ErrNil, <<>>)
    /\ historyRes = HistoryCall("-", 0, <<>>)
    /\ user_version = 0
    /\ migratePc = MigrateIdle
    /\ scriptPc = 0
    /\ lastStep = 0

NextLock ==
    \/ \E r \in LockResources, tk \in LeaseTokens, exp \in Times :
          AcquireLock(r, tk.lock_id, tk.by, exp)
    \/ \E r \in LockResources, id \in LockIds : ReleaseLock(r, id)
    \/ \E r \in LockResources, id \in LockIds, exp \in Times : RefreshLock(r, id, exp)
    \/ CleanupExpiredLocks
    \/ Tick

SpecLock == Init /\ [][NextLock]_vars

OpIds == 1..MaxOps

NextAudit ==
    \/ \E c \in {"a"}, ty \in OpTypes :
          /\ AuditStartOperation(c, ty)
          /\ UNCHANGED <<lockVars, storeVars, statusVars, moreVars>>
    \/ \E id \in OpIds, st \in TerminalStatuses, msg \in ErrorMsgs :
          /\ AuditCompleteOperation(id, st, msg)
          /\ UNCHANGED <<lockVars, storeVars, statusVars, moreVars>>
    \/ /\ AuditCompleteOperationFinish
       /\ UNCHANGED <<lockVars, storeVars, statusVars, moreVars>>
    \/ \E id \in OpIds, st \in {"running", "failed"}, msg \in {"boom"} :
          /\ UpdateOperation(id, st, msg)
          /\ UNCHANGED <<lockVars, storeVars, statusVars, moreVars>>
    \/ \E id \in OpIds, st \in {"completed", "canceled"} :
          /\ CompleteOperation(id, st)
          /\ UNCHANGED <<lockVars, storeVars, statusVars, moreVars>>
    \/ Tick

SpecAudit == Init /\ [][NextAudit]_vars

ClusterIdArgs == 0..MaxClusters

NextStore ==
    \/ \E id \in ClusterIdArgs, name \in ClusterNames, in \in ClusterInputs :
          /\ SaveClusterState(id, name, in, FALSE)
          /\ UNCHANGED <<lockVars, auditVars, statusVars, moreVars>>
    \/ \E name \in ClusterNames, in \in ClusterInputs :
          /\ SaveClusterState(0, name, in, TRUE)
          /\ UNCHANGED <<lockVars, auditVars, statusVars, moreVars>>
    \/ \E name \in ClusterNames :
          /\ DeleteClusterState(name)
          /\ UNCHANGED <<lockVars, auditVars, statusVars, moreVars>>
    \/ \E id \in ResourceIds, name \in {"a"} :
          /\ SaveResource(id, name)
          /\ UNCHANGED <<lockVars, auditVars, statusVars, moreVars>>
    \/ \E id \in ResourceIds, name \in {"a"} :
          /\ DeleteResource(name, id)
          /\ UNCHANGED <<lockVars, auditVars, statusVars, moreVars>>
    \/ Tick

SpecStore == Init /\ [][NextStore]_vars

NextDrift ==
    \/ \E name \in {"a"}, syncFlag \in BOOLEAN :
          /\ StatusRead(name, syncFlag, "text", FALSE)
          /\ UNCHANGED <<lockVars, auditVars, moreVars>>
    \/ \E actual \in ProviderReports :
          /\ StatusCheck(actual)
          /\ UNCHANGED <<lockVars, auditVars, moreVars>>
    \/ \E io \in BOOLEAN :
          /\ StatusSync(io)
          /\ UNCHANGED <<lockVars, auditVars, moreVars>>
    \/ \E id \in ClusterIdArgs, in \in ClusterInputs :
          /\ SaveClusterState(id, "a", in, FALSE)
          /\ UNCHANGED <<lockVars, auditVars, statusVars, moreVars>>
    \/ /\ DeleteClusterState("a")
       /\ UNCHANGED <<lockVars, auditVars, statusVars, moreVars>>
    \/ Tick

SpecDrift == Init /\ [][NextDrift]_vars

otherThanStore == <<lockVars, auditVars, statusVars, historyRes, migrateVars>>

\* Readers next to one process that writes clusters and resources.
NextRead ==
    \/ \E name \in ClusterNames, in \in {x \in ClusterInputs : x.provider = "local"} :
          /\ SaveClusterState(0, name, in, FALSE)
          /\ UNCHANGED <<otherThanStore, readVars>>
    \/ \E name \in ClusterNames :
          /\ DeleteClusterState(name)
          /\ UNCHANGED <<otherThanStore, readVars>>
    \/ \E id \in {"x1"} :
          /\ SaveResource(id, "a")
          /\ UNCHANGED <<otherThanStore, readVars>>
    \/ \E id \in {"x1"} :
          /\ DeleteResource("a", id)
          /\ UNCHANGED <<otherThanStore, readVars>>
    \/ \E name \in ClusterNames, io \in BOOLEAN :
          /\ GetClusterStateRow(name, io)
          /\ UNCHANGED otherThanStore
    \/ \E io \in BOOLEAN :
          /\ GetClusterStateResources(io)
          /\ UNCHANGED otherThanStore
    \/ /\ ListClusters
       /\ UNCHANGED otherThanStore
    \/ Tick

SpecRead == Init /\ [][NextRead]_vars

\* Readers of a store in which a stored text gets damaged.
NextFault ==
    \/ \E name \in ClusterNames, in \in {x \in ClusterInputs : x.provider = "local"} :
          /\ SaveClusterState(0, name, in, FALSE)
          /\ UNCHANGED <<otherThanStore, readVars>>
    \/ \E name \in ClusterNames :
          /\ CorruptStoredValue(name)
          /\ UNCHANGED <<otherThanStore, readVars>>
    \/ \E name \in ClusterNames, io \in BOOLEAN :
          /\ GetClusterStateRow(name, io)
          /\ UNCHANGED otherThanStore
    \/ \E io \in BOOLEAN :
          /\ GetClusterStateResources(io)
          /\ UNCHANGED otherThanStore
    \/ /\ ListClusters
       /\ UNCHANGED otherThanStore
    \/ Tick

SpecFault == Init /\ [][NextFault]_vars

\* Runs of `atlas cluster status` in both output modes on a store that one
\* other process fills and empties.
NextHistory ==
    \/ \E c \in ClusterNames, ty \in OpTypes :
          /\ AuditStartOperation(c, ty)
          /\ UNCHANGED <<lockVars, storeVars, statusVars, moreVars>>
    \/ \E id \in {1}, st \in {"completed"} :
          /\ CompleteOperation(id, st)
          /\ UNCHANGED <<lockVars, storeVars, statusVars, moreVars>>
    \/ \E c \in {"a"}, limit \in Limits :
          /\ GetOperationHistory(c, limit)
          /\ UNCHANGED <<lockVars, storeVars, statusVars, readVars, migrateVars>>
    \/ Tick

SpecHistory == Init /\ [][NextHistory]_vars

NextMigrate ==
    \/ \E io \in BOOLEAN :
          /\ RunMigrationsReadVersion(io)
          /\ UNCHANGED <<now, lockVars, auditVars, storeVars, statusVars, readVars, historyRes>>
    \/ /\ RunMigration001
       /\ UNCHANGED <<now, lockVars, auditVars, storeVars, statusVars, readVars, historyRes>>
    \/ /\ RunMigration002
       /\ UNCHANGED <<now, lockVars, auditVars, storeVars, statusVars, readVars, historyRes>>
    \/ \E n \in 1..LastScriptMigration :
          /\ ScriptMigration(n)
          /\ UNCHANGED <<now, lockVars, auditVars, storeVars, statusVars, readVars, historyRes>>
    \/ Tick

SpecMigrate == Init /\ [][NextMigrate]_vars

\* Runs of `atlas cluster status` against the local provider.
NextProvider ==
    \/ \E syncFlag \in BOOLEAN :
          /\ StatusRead("a", syncFlag, "text", FALSE)
          /\ UNCHANGED <<lockVars, auditVars, moreVars>>
    \/ \E m \in MinikubeRuns :
          /\ StatusCheck(LocalGetCluster(m))
          /\ UNCHANGED <<lockVars, auditVars, moreVars>>
    \/ /\ StatusSync(FALSE)
       /\ UNCHANGED <<lockVars, auditVars, moreVars>>
    \/ \E in \in {x \in ClusterInputs : x.provider = "local"} :
          /\ SaveClusterState(0, "a", in, FALSE)
          /\ UNCHANGED <<lockVars, auditVars, statusVars, moreVars>>
    \/ /\ DeleteClusterState("a")
       /\ UNCHANGED <<lockVars, auditVars, statusVars, moreVars>>

SpecProvider == Init /\ [][NextProvider]_vars

\* Operations are begun and completed for a cluster that is saved and deleted.
NextAppend ==
    \/ \E in \in {x \in ClusterInputs : x.provider = "local"} :
          /\ SaveClusterState(0, "a", in, FALSE)
          /\ UNCHANGED <<lockVars, auditVars, statusVars, moreVars>>
    \/ /\ DeleteClusterStateAndHistory("a")
       /\ UNCHANGED <<lockVars, statusVars, moreVars>>
    \/ \E ty \in OpTypes :
          /\ AuditStartOperation("a", ty)
          /\ UNCHANGED <<lockVars, storeVars, statusVars, moreVars>>
    \/ \E id \in {1}, st \in {"completed"} :
          /\ CompleteOperation(id, st)
          /\ UNCHANGED <<lockVars, storeVars, statusVars, moreVars>>
    \/ \E limit \in {MaxLimit} :
          /\ GetOperationHistory("a", limit)
          /\ UNCHANGED <<lockVars, storeVars, statusVars, readVars, migrateVars>>
    \/ Tick

SpecAppend == Init /\ [][NextAppend]_vars

NextStatus ==
    \/ \E syncFlag \in BOOLEAN, output \in OutputModes, io \in BOOLEAN :
          /\ StatusRead("a", syncFlag, output, io)
          /\ UNCHANGED <<lockVars, auditVars, moreVars>>
    \/ \E actual \in ProviderReports :
          /\ StatusCheck(actual)
          /\ UNCHANGED <<lockVars, auditVars, moreVars>>
    \/ \E io \in BOOLEAN :
          /\ StatusSync(io)
          /\ UNCHANGED <<lockVars, auditVars, moreVars>>
    \/ \E in \in ClusterInputs :
          /\ SaveClusterState(0, "a", in, FALSE)
          /\ UNCHANGED <<lockVars, auditVars, statusVars, moreVars>>
    \/ /\ DeleteClusterState("a")
       /\ UNCHANGED <<lockVars, auditVars, statusVars, moreVars>>
    \/ Tick

SpecStatus == Init /\ [][NextStatus]_vars

\* ------------------------------------------------------------------------
\* Lease claims
\* ------------------------------------------------------------------------
\* A step that is a lease call `op` (calls leave the clock alone, Tick moves it).
LockCallStep(op) == now' = now /\ lockRes'.op = op

\* The caller's row as a successful Acquire leaves it.
GrantedTo(locks, res) ==
    /\ LocksOf(locks, res.resource) # {}
    /\ GetLock(locks, res.resource).lock_id = res.lock_id
    /\ GetLock(locks, res.resource).expires_at = res.expires_at

\* C1: of two Acquire calls for the same resource that the database serializes
\* one right after the other, where the resource had no unexpired lock before
\* the first and both expiry times are not yet past when the second runs, the
\* first succeeds, the second reports Busy (zero rows affected) and the
\* first's row stays as it is.
C1_ExactlyOneAcquires ==
    [][ ( /\ LockCallStep("Acquire")
          /\ lockRes.op = "Acquire"
          /\ lockRes.resource = lockRes'.resource
          /\ lockRes.held # "live"
          /\ lockRes.expires_at >= now
          /\ lockRes'.expires_at >= now )
        => ( /\ lockRes.rows = 1
             /\ lockRes'.rows = 0
             /\ state_locks' = state_locks
             /\ GrantedTo(state_locks', lockRes) ) ]_vars

\* C1 witness: an Acquire with an unexpired expiry time reported Busy against
\* a lease another caller was granted in the same second.
C1_Witness ==
    /\ lockRes.op = "Acquire"
    /\ lockRes.rows = 0
    /\ lockRes.expires_at >= now
    /\ lockRes.pre # NoRow
    /\ lockRes.pre.acquired_at = now
    /\ lockRes.pre.lock_id # lockRes.lock_id

\* C7: an Acquire that finds an expired row for its resource succeeds, and the
\* row then carries the caller's lock_id and expires_at.
C7_ExpiredLockIsStolen ==
    (lockRes.op = "Acquire" /\ lockRes.held = "expired")
        => (lockRes.rows = 1 /\ GrantedTo(state_locks, lockRes))

\* C7 witness: a different holder took over an expired row that was still in
\* the table (no Release or Sweep had removed it).
C7_Witness ==
    /\ lockRes.op = "Acquire"
    /\ lockRes.held = "expired"
    /\ lockRes.rows = 1
    /\ lockRes.pre.acquired_by # GetLock(state_locks, lockRes.resource).acquired_by
    /\ lockRes.pre.lock_id # lockRes.lock_id

C22_SweepDeletesExpiredOnly ==
    [][ CleanupExpiredLocks =>
          /\ state_locks' = {l \in state_locks : ~(l.expires_at < now)}
          /\ lockRes'.rows = Cardinality({l \in state_locks : l.expires_at < now}) ]_vars

\* C22 witness: a sweep deleted a row and left a row that runs out at this
\* very second.
C22_Witness ==
    /\ lockRes.op = "Sweep"
    /\ lockRes.rows = 1
    /\ \E l \in state_locks : l.expires_at = now

\* C26: in every state a resource has at most one lock row, and no step
\* puts another lock_id on a resource whose row has not run out: a lock_id
\* is replaced only after its expires_at has passed or after its own release.
C26_OneValidLockPerResource ==
    [][ \A r \in LockResources :
          /\ Cardinality(LocksOf(state_locks', r)) =< 1
          /\ \A l \in LocksOf(state_locks, r), m \in LocksOf(state_locks', r) :
                (~(l.expires_at < now) /\ now' = now) => m.lock_id = l.lock_id ]_vars

\* C26 witness: an Acquire presenting another lock_id met a row that runs
\* out at this very second and was turned away.
C26_Witness ==
    /\ lockRes.op = "Acquire"
    /\ lockRes.rows = 0
    /\ lockRes.pre # NoRow
    /\ lockRes.pre.expires_at = now
    /\ lockRes.pre.lock_id # lockRes.lock_id
    /\ lockRes.pre \in state_locks

\* ------------------------------------------------------------------------
\* Audit claims
\* ------------------------------------------------------------------------
\* A step in which a call `op` of the audit service or the store returns.
AuditCallStep(op) == now' = now /\ auditRes'.op = op

\* C2 (as claimed): an auditService.CompleteOperation that returns for a
\* record whose completed_at is already set returns an error, and the
\* record's completed_at and duration_ms stay as the first completion wrote them.
C2_SecondCompleteFails ==
    [][ LET old == GetOperation(operation_history, auditRes'.id)
            new == GetOperation(operation_history', auditRes'.id)
        IN  (AuditCallStep("Complete") /\ old # NoOp /\ old.completed_at # Null)
            => ( /\ auditRes'.err # "nil"
                 /\ new.completed_at = old.completed_at
                 /\ new.duration_ms = old.duration_ms ) ]_vars

\* C10 (as claimed): a record that has a terminal status keeps its
\* operation_status, completed_at and duration_ms in every later step.
C10_TerminalIsFrozen ==
    [][ \A o \in operation_history :
          o.operation_status \in TerminalStatuses =>
            \E o2 \in operation_history' :
                /\ o2.id = o.id
                /\ o2.operation_status = o.operation_status
                /\ o2.completed_at = o.completed_at
                /\ o2.duration_ms = o.duration_ms ]_vars

\* C24 (as claimed): while an auditService.CompleteOperation is under way or
\* was abandoned, its record is untouched or finalized: it has no terminal
\* status and no error_message unless completed_at and duration_ms are set.
C24_CompleteIsAtomic ==
    auditPc # AuditIdle =>
       \A o \in OpsOf(operation_history, auditPc.id) :
          (o.operation_status \in TerminalStatuses \/ o.error_message # Null)
             => (o.completed_at # Null /\ o.duration_ms # Null)

\* ------------------------------------------------------------------------
\* Cluster and resource claims
\* ------------------------------------------------------------------------
\* A step in which a cluster or resource call `op` returns.
StoreCallStep(op) ==
    /\ now' = now
    /\ storeRes'.op = op
    /\ storeVars' # storeVars

\* C3 (as claimed): once DeleteClusterState(name) has returned nil,
\* ListResources(name) is empty.
C3_DeleteCascades ==
    (storeRes.op = "DeleteCluster" /\ storeRes.err = ErrNil)
        => ListResources(cluster_resources, storeRes.name) = <<>>

\* C4: a SaveClusterState with ID 0 that the driver does not fail returns the
\* constraint error, which is not the I/O error, and leaves table clusters as
\* it was when a row of that name exists; otherwise it returns nil and adds
\* one row that carries the name, the next id and the caller's values.
C4_DuplicateNameConflicts ==
    [][ (StoreCallStep("SaveCluster") /\ storeRes'.id = 0 /\ storeRes'.err # ErrIO)
        => IF ClustersNamed(clusters, storeRes'.name) # {}
           THEN /\ storeRes'.err = ErrConstraint
                /\ ErrConstraint # ErrIO
                /\ clusters' = clusters
           ELSE /\ storeRes'.err = ErrNil
                /\ \E in \in ClusterInputs :
                      clusters' = clusters \cup
                          {ClusterState(nextClusterId, storeRes'.name, in)
                              @@ [created_at |-> now, updated_at |-> now]} ]_vars

\* A second SaveClusterState with ID 0 and a stored name was refused.
C4_Witness ==
    /\ storeRes.op = "SaveCluster"
    /\ storeRes.id = 0
    /\ storeRes.err = ErrConstraint
    /\ ClustersNamed(clusters, storeRes.name) # {}

\* The fields of a cluster record that a caller supplies and reads back.
SavedFields ==
    {"provider", "region", "status", "node_count", "version", "config",
     "metadata", "created_by"}

\* The record is new (ID 0), or its ID is the id of the stored row of its name.
IsValidRecord(cs, id, name) ==
    id = 0 \/ \E c \in cs : c.id = id /\ c.name = name

\* C13 (as claimed): a SaveClusterState that returns nil for a new record, or
\* for a record whose ID is the id of the stored row of its name, is followed
\* by a GetClusterState of the name that finds a row with the record's ID (the
\* assigned one for a new record), its name and every saved field, and with
\* an updated_at not before the row's previous one.
C13_SaveThenGetRoundTrips ==
    [][ \A id \in ClusterIdArgs, name \in ClusterNames, in \in ClusterInputs :
          ( /\ StoreCallStep("SaveCluster")
            /\ storeRes'.err = ErrNil
            /\ IsValidRecord(clusters, id, name)
            /\ SaveClusterState(id, name, in, FALSE) )
          => LET got == GetClusterState(clusters', name)
                 old == GetClusterState(clusters, name)
             IN  /\ got.id # 0
                 /\ id # 0 => got.id = id
                 /\ got.name = name
                 /\ \A f \in SavedFields : got[f] = in[f]
                 /\ old.id # 0 => got.updated_at >= old.updated_at ]_vars

\* C14 (as claimed): in every state each stored resource row names a
\* cluster that has a stored row.
C14_ResourcesHaveCluster ==
    \A r \in cluster_resources : ClustersNamed(clusters, r.cluster_id) # {}

\* C15: a DeleteClusterState of a name that has no row returns
\* sql.ErrNoRows, which is not nil, and leaves every table as it was.
C15_DeleteMissingIsNotFound ==
    [][ (StoreCallStep("DeleteCluster") /\ ClustersNamed(clusters, storeRes'.name) = {})
        => /\ storeRes'.err = ErrNoRows
           /\ ErrNoRows # ErrNil
           /\ UNCHANGED <<clusters, nextClusterId, cluster_resources>> ]_vars

\* A DeleteClusterState found no row of the name and said so; the other
\* cluster is still stored.
C15_Witness ==
    /\ storeRes.op = "DeleteCluster"
    /\ storeRes.err = ErrNoRows
    /\ ClustersNamed(clusters, storeRes.name) = {}
    /\ clusters # {}

\* C28 (as claimed): when a SaveClusterState returns nil, clusters holds a
\* row of the record's name with the provider, region, status, node count,
\* version, config and metadata that were saved.
C28_SaveSuccessMeansStored ==
    [][ \A id \in ClusterIdArgs, name \in ClusterNames, in \in ClusterInputs :
          (SaveClusterState(id, name, in, FALSE) /\ storeRes'.err = ErrNil)
             => LET row == GetClusterState(clusters', name)
                IN  /\ row.id # 0
                    /\ \A f \in {"provider", "region", "status", "node_count",
                                 "version", "config", "metadata"} :
                          row[f] = in[f] ]_vars

\* C21 (as claimed): no two rows of cluster_resources share (cluster_id,
\* resource_type, resource_name, namespace), and a SaveResource of a new id
\* whose tuple another stored row has returns an error and leaves that row
\* as it is.
C21_ResourceTupleConflicts ==
    [][ /\ \A q, r \in cluster_resources' : SameResourceKey(q, r) => q = r
        /\ \A id \in ResourceIds, c \in ClusterNames :
              LET others == {q \in cluster_resources :
                                q.id # id /\ SameResourceKey(q, Resource(id, c))}
              IN  (SaveResource(id, c) /\ others # {})
                     => /\ storeRes'.err # ErrNil
                        /\ others \subseteq cluster_resources' ]_vars

\* A step in which a GetClusterState or ListClusters returns.
ReadReturns(op) == readRes' # readRes /\ readRes'.op = op

Unreadable(row) ==
    Unmarshal(row.config).err # ErrNil \/ Unmarshal(row.metadata).err # ErrNil

\* C25 (as claimed): a GetClusterState or ListClusters that reads a row whose
\* config or metadata text does not decode, or whose statement fails,
\* returns an error.
C25_ReadFailuresAreReturned ==
    [][ /\ (ReadReturns("ListClusters") /\ \E row \in clusters : Unreadable(row))
            => readRes'.err # ErrNil
        /\ (ReadReturns("GetCluster") /\ readPc.state = "row" /\ Unreadable(readPc.cluster))
            => readRes'.err # ErrNil
        /\ ( \/ \E name \in ClusterNames : GetClusterStateRow(name, TRUE)
             \/ GetClusterStateResources(TRUE) )
            => readRes'.err # ErrNil ]_vars

\* C16: a GetClusterState whose row query does not fail and finds no row of
\* the name returns no record and no error.
C16_GetMissingIsAbsent ==
    [][ ( /\ ReadReturns("GetCluster")
          /\ readPc = ReadIdle
          /\ readRes'.err # ErrIO
          /\ ClustersNamed(clusters, readRes'.name) = {} )
        => /\ readRes'.err = ErrNil
           /\ readRes'.records = <<>> ]_vars

\* A GetClusterState of a name whose row had just been deleted returned
\* nothing and no error.
C16_Witness ==
    /\ readRes.op = "GetCluster"
    /\ readRes.err = ErrNil
    /\ readRes.records = <<>>
    /\ storeRes.op = "DeleteCluster"
    /\ storeRes.err = ErrNil
    /\ storeRes.name = readRes.name

\* C20 (as claimed): every record that a GetClusterState or a ListClusters
\* returns carries exactly the resource rows stored for its cluster at the
\* return.
C20_ReadsCarryResources ==
    [][ ( /\ (ReadReturns("GetCluster") \/ ReadReturns("ListClusters"))
          /\ readRes'.err = ErrNil )
        => \A i \in 1..Len(readRes'.records) :
              LET rec == readRes'.records[i]
              IN  {rec.resources[k] : k \in 1..Len(rec.resources)}
                    = ResourcesOf(cluster_resources', rec.cluster.name) ]_vars

\* ------------------------------------------------------------------------
\* History claims
\* ------------------------------------------------------------------------
\* A step in which a GetOperationHistory returns a result.
HistoryReturns == historyRes' # historyRes

Returned(res) == {res.rows[i] : i \in 1..Len(res.rows)}

NeverCompleted(o) ==
    /\ o.operation_status = "started"
    /\ o.completed_at = Null
    /\ o.duration_ms = Null

\* C18: the row that StartOperation inserts has status started and neither
\* completed_at nor duration_ms; as long as no CompleteOperation or
\* UpdateOperation is made for its id, every step leaves the row as it is;
\* and a GetOperationHistory of its cluster returns it whenever the limit
\* covers the rows of the cluster started at or after it.
C18_UnfinishedOperationStays ==
    [][ /\ (auditRes'.op = "Begin" /\ nextOpId' # nextOpId)
            => /\ OpsOf(operation_history', nextOpId) # {}
               /\ \A o \in OpsOf(operation_history', nextOpId) : NeverCompleted(o)
        /\ \A o \in operation_history :
              ( /\ NeverCompleted(o)
                /\ ~ \E st \in OpStatuses : CompleteOperation(o.id, st)
                /\ ~ \E st \in OpStatuses, msg \in ErrorMsgs : UpdateOperation(o.id, st, msg) )
              => o \in operation_history'
        /\ HistoryReturns =>
              \A o \in OpsNamed(operation_history, historyRes'.cluster) :
                 ( /\ NeverCompleted(o)
                   /\ Cardinality({p \in OpsNamed(operation_history, o.cluster_name) :
                                      p.started_at >= o.started_at}) =< historyRes'.limit )
                 => o \in Returned(historyRes') ]_vars

\* A history read after the clock moved on returned an operation that was
\* begun and never completed, below an operation begun after it.
C18_Witness ==
    /\ Len(historyRes.rows) = 2
    /\ NeverCompleted(historyRes.rows[2])
    /\ historyRes.rows[2] \in operation_history
    /\ historyRes.rows[1].started_at > historyRes.rows[2].started_at
    /\ now > historyRes.rows[2].started_at

IsStrictlyIncreasing(s) == \A i, j \in 1..Len(s) : i < j => s[i] < s[j]

\* C19 (as claimed): the migration steps of a startup run in strictly
\* increasing order of their numbers, and the stored schema version is the
\* number of the migration step that completed last.
C19_VersionIsLastCompletedStep ==
    /\ migratePc # MigrateIdle => IsStrictlyIncreasing(migratePc.ran)
    /\ user_version = lastStep

\* ------------------------------------------------------------------------
\* Drift check claims
\* ------------------------------------------------------------------------
\* A step of a run of `atlas cluster status`.
StatusStep == statusVars' # statusVars

\* C5: a step of a run changes the tables only if it is the run's
\* SaveClusterState call, the run read a stored record, the provider
\* reported the cluster, at least one field differs and --sync was given;
\* every other step of a run leaves every stored row, updated_at included,
\* as it was.
C5_WritesOnlyOnSync ==
    [][ (StatusStep /\ <<clusters, nextClusterId, cluster_resources>>' #
                       <<clusters, nextClusterId, cluster_resources>>)
        => ( /\ statusPc.state = "write"
             /\ statusPc.stored.id # 0
             /\ statusPc.actual.found
             /\ DriftFields(statusPc.stored, statusPc.actual) # {}
             /\ statusPc.syncFlag ) ]_vars

\* A run without --sync found a difference and ended; the row is still as
\* the run read it.
C5_Witness ==
    /\ statusPc = StatusIdle
    /\ statusRes.outcome = "drift reported"
    /\ GetClusterState(clusters, statusRes.name).id # 0

\* C23 (as claimed): when a run makes its SaveClusterState call, state_locks
\* holds a row for the cluster name that has not run out.
C23_SyncWritesUnderLease ==
    [][ (StatusStep /\ statusPc.state = "write")
        => \E l \in state_locks :
              /\ l.resource_name = statusPc.name
              /\ ~(l.expires_at < now) ]_vars

\* C29: a run ends with the stale-record report exactly when it read a
\* stored record and LocalProvider.GetCluster returned "does not exist"; when
\* `minikube status` fails in another way and does not say "does not
\* exist", the run does not end with the stale-record report.
C29_StaleOnlyWhenProviderSaysGone ==
    [][ \A m \in MinikubeRuns :
          StatusCheck(LocalGetCluster(m)) =>
             /\ (statusPc' = StatusIdle /\ statusRes'.outcome = "stale")
                   <=> (statusPc.stored.id # 0 /\ ~LocalGetCluster(m).found)
             /\ (m.err \notin {"nil", "exit status 7"} /\ "does not exist" \notin m.out)
                   => ~(statusPc' = StatusIdle /\ statusRes'.outcome = "stale") ]_vars

\* A run that read a stored record while minikube could not be started
\* ended with a drift report on the status field, not with a stale record.
C29_Witness ==
    /\ statusPc = StatusIdle
    /\ statusRes.outcome = "drift reported"
    /\ Len(statusRes.report.messages) >= 1
    /\ statusRes.report.messages[1] = <<"Status", "running", "error">>

\* C27 (as claimed): when a run with --sync returns after "Database
\* synchronized successfully", provider, region, config and metadata of the
\* stored row are as they were committed just before the run's write.
C27_SyncKeepsOtherUpdates ==
    [][ (statusPc.state = "write" /\ statusRes'.outcome = "synchronized"
            /\ statusPc' = StatusIdle
            /\ GetClusterState(clusters, statusPc.name).id # 0)
        => LET before == GetClusterState(clusters, statusPc.name)
               after  == GetClusterState(clusters', statusPc.name)
           IN  \A f \in {"provider", "region", "config", "metadata"} :
                  after[f] = before[f] ]_vars

\* C6 (as claimed): when a run with --sync returns after "Database
\* synchronized successfully", the cluster has a stored row, the row holds
\* the observed value in every field that differed, and its updated_at is
\* the time of the write and not before the updated_at the run read.
C6_SyncedRecordMatchesProvider ==
    [][ (statusPc.state = "write" /\ statusRes'.outcome = "synchronized"
            /\ statusPc' = StatusIdle)
        => LET row == GetClusterState(clusters', statusPc.name)
           IN  /\ row.id # 0
               /\ \A f \in DriftFields(statusPc.stored, statusPc.actual) :
                      row[f] = statusPc.actual[f]
               /\ row.updated_at = now
               /\ row.updated_at >= statusPc.stored.updated_at ]_vars

\* The five results of a run that returns no error.
FiveOutcomes == {"in sync", "drift reported", "synchronized", "untracked", "stale"}

\* How a run on the record `stored` ends when the provider reports `actual`
\* and no call fails.
RunOutcome(stored, actual, syncFlag) ==
    IF NeedsSync(stored, actual, syncFlag) THEN "synchronized"
    ELSE Outcome(stored, actual)

\* What that run hands to its caller in the output mode `output`.
RunReport(stored, actual, syncFlag, output) ==
    Report(RunOutcome(stored, actual, syncFlag), output,
           IF stored.id # 0 /\ actual.found THEN DriftMessages(stored, actual) ELSE <<>>)

\* C11 (as claimed): a run that returns no error ends in one of the five
\* outcomes, and what it hands to its caller differs from what a run on the
\* same stored record in the same output mode hands over when that run ends
\* in another of the five outcomes.
C11_OutcomesDistinguishable ==
    [][ (statusPc.state \in {"read", "write"} /\ statusPc' = StatusIdle
            /\ statusRes'.report.err = "nil")
        => /\ statusRes'.outcome \in FiveOutcomes
           /\ \A actual2 \in ProviderReports, sync2 \in BOOLEAN :
                LET o2 == RunOutcome(statusPc.stored, actual2, sync2)
                IN  (o2 \in FiveOutcomes /\ o2 # statusRes'.outcome)
                    => RunReport(statusPc.stored, actual2, sync2, statusPc.output)
                          # statusRes'.report ]_vars

\* The (field, stored value, observed value) triples of the fields that
\* differ, the version only when the observed version is not empty.
ExpectedMismatches(stored, actual) ==
    {<<"Status", stored.status, actual.status>> : x \in {y \in {1} : stored.status # actual.status}}
    \cup {<<"Nodes", ToString(stored.node_count), ToString(actual.node_count)>> :
              x \in {y \in {1} : stored.node_count # actual.node_count}}
    \cup {<<"Version", stored.version, actual.version>> :
              x \in {y \in {1} : stored.version # actual.version /\ actual.version # ""}}

\* The list a run holds after its comparison: in the run that goes on to
\* write, and in what is reported otherwise.
MismatchList(pc, res) ==
    IF pc.state = "write" THEN pc.messages ELSE res.report.messages

\* C12: when a run has read a stored record and the provider reports the
\* cluster, the list the run builds has one entry for each field among
\* status, node count and version whose stored and observed values differ,
\* and no other entry; the version counts only if the observed one is not empty.
C12_MismatchListIsExact ==
    [][ (statusPc.state = "read" /\ statusPc' # statusPc /\ statusPc.stored.id # 0)
        => \A actual \in ProviderReports :
              (StatusCheck(actual) /\ actual.found) =>
                    LET list == MismatchList(statusPc', statusRes')
                        want == ExpectedMismatches(statusPc.stored, actual)
                    IN  /\ {list[i] : i \in 1..Len(list)} = want
                        /\ Len(list) = Cardinality(want) ]_vars

\* A run reported status and node count as differing and left the version
\* out because the provider gave none.
C12_Witness ==
    /\ statusPc = StatusIdle
    /\ statusRes.outcome = "drift reported"
    /\ Len(statusRes.report.messages) = 2
    /\ \A i \in 1..2 : statusRes.report.messages[i][1] # "Version"

====
